---- MODULE Spec2Model ----
(***************************************************************************)
(* Image storage pipeline of the meal tracker: the express routes          *)
(* GET /api/images/:id, POST /api/meals, PATCH /api/meals/:id and          *)
(* DELETE /api/meals/:id, the helper safeDeleteFile, and the pixel codec   *)
(* adapter QOIImageService.  The codec adapter, the rating fields of the   *)
(* form and the text correction are also followed on their own, each       *)
(* under a specification of its own (SpecCodec, SpecRatings, SpecCorrect), *)
(* and so are the statements on restaurants, people and meal_people        *)
(* (SpecRelations), POST /api/analyze-photo (SpecAnalyze) and the image    *)
(* section of the client's meal edit dialog (SpecDialog).                  *)
(*                                                                         *)
(* A request is a process with a program counter; one action is one run of *)
(* a handler between two points where other requests can interleave.  The  *)
(* outcome of every call that leaves the process (database, file system,   *)
(* AI service, injected codec failure) is chosen by the environment.       *)
(***************************************************************************)
EXTENDS Integers, Sequences, FiniteSets, TLC

(***************************************************************************)
(* Bounds                                                                  *)
(***************************************************************************)
MaxActive == 2        \* requests in flight at the same time
MaxLegacy == 1        \* meal rows that exist before the first request
MaxCreated == 1       \* meal rows created by POST /api/meals
DimCount == 12        \* sampled intrinsic sizes per axis (codec adapter)
DimStep == 331        \* distance between two sampled sizes
MaxClients == 2       \* clients of the relational part and of analyze-photo
MaxRelMeals == 1      \* meal rows created in the relational part
MaxAnalyze == 3       \* requests to POST /api/analyze-photo
MaxFiles == 2         \* files the user can choose in the edit dialog

(***************************************************************************)
(* Program constants                                                       *)
(***************************************************************************)
maxDimension == 1920
DefaultWidth == 800
DefaultHeight == 600

Reqs == 1..MaxActive
MealIds == 1..(MaxLegacy + MaxCreated)

(***************************************************************************)
(* Values.  A nullable integer column holds Null; a local variable that    *)
(* was never assigned holds Undef.                                         *)
(***************************************************************************)
Null == -1
Undef == -2

\* byte strings: an uploaded file, or the output of QOI.encode
Upload(fmt, w, h) == [fmt |-> fmt, w |-> w, h |-> h]
NoBytes == Upload("none", 0, 0)
\* an uploaded file whose content the handler has not read yet
Unread == Upload("unread", 0, 0)

\* text values of the image_data column and of the imageData locals
Base64Encode(b) == [enc |-> "b64", fmt |-> b.fmt, w |-> b.w, h |-> b.h]
Base64Decode(t) == [fmt |-> t.fmt, w |-> t.w, h |-> t.h]
NullText == [enc |-> "null", fmt |-> "none", w |-> 0, h |-> 0]
UndefText == [enc |-> "undef", fmt |-> "none", w |-> 0, h |-> 0]

\* files on disk: the multer temp file of a request, the legacy photo of a meal
TempFile(r) == <<"uploads/", "tmp", r>>
PhotoFile(m) == <<"uploads/", "photo", m>>
NoFile == <<"", "", 0>>
\* the photoUrl column of a legacy row: the URL under which the file is served
PhotoUrl(m) == <<"/uploads/", "photo", m>>

\* the uploads a client can send with an image/* MIME type
\* "img" is a decodable photo (one above maxDimension, one below), "nodims" a
\* file whose metadata has no width or height, "garbage" bytes that no
\* decoder reads
Uploads ==
    { Upload("img", 3000, 2000), Upload("img", 640, 480),
      Upload("nodims", 0, 0), Upload("garbage", 0, 0) }

\* the uploads that upload.single("photo") refuses: a part whose declared
\* MIME type does not start with "image/", a file over the fileSize limit
NotImageMime == Upload("text/plain", 0, 0)
OverFileSize == Upload("over5MB", 0, 0)
Refused == {NotImageMime, OverFileSize}

NoRow ==
    [exists |-> FALSE, photoUrl |-> NoFile, imageData |-> NullText,
     imageWidth |-> Null, imageHeight |-> Null]

LegacyRow(m) ==
    [exists |-> TRUE, photoUrl |-> PhotoUrl(m), imageData |-> NullText,
     imageWidth |-> Null, imageHeight |-> Null]

IdleReq ==
    [pc |-> "idle", kind |-> "none", id |-> 0, file |-> NoBytes,
     deleteImage |-> FALSE, photoUrl |-> NoFile, photoSet |-> FALSE,
     imageData |-> UndefText, imageWidth |-> Undef, imageHeight |-> Undef,
     cur |-> NoRow, ret |-> "none", status |-> 0, message |-> "",
     log |-> << >>]

\* processImageForStorage threw
Failed == [ok |-> FALSE, qoiData |-> UndefText, width |-> Undef, height |-> Undef]

\* convertQOIToWebFormat threw, or was not called
NoPng == [ok |-> FALSE, w |-> 0, h |-> 0]

\* a call of the codec adapter on its own: its argument, what it returned,
\* and the raster that convertQOIToWebFormat made of the returned payload
CodecIdle ==
    [pc |-> "idle", imageBuffer |-> NoBytes, result |-> Failed, png |-> NoPng]

\* the rating fields of the request body and of the meals table
RatingFields ==
    {"tasteRating", "presentationRating", "valueRating", "serviceRating"}

\* the rating columns of the meal that the form handling is followed for:
\* no request yet, no row
FormIdle ==
    [pc |-> "idle", exists |-> FALSE, ratings |-> [f \in RatingFields |-> 0],
     status |-> 0]

\* a reply of the chat completion: an API error, a response without choices,
\* a message without content, content that is not JSON, the JSON null, or a
\* JSON object whose three keys are each present or not
Reply(kind, correctedText, correctionsMade, corrections) ==
    [kind |-> kind, correctedText |-> correctedText,
     correctionsMade |-> correctionsMade, corrections |-> corrections]
NoReply == Reply("none", "<undefined>", "undefined", Undef)

\* what correctDescription returns when it changes nothing; the list of
\* corrections is held as its length
Uncorrected(description) ==
    [threw |-> FALSE, correctedText |-> description, correctionsMade |-> FALSE,
     corrections |-> 0]

\* a text correction on its own: no call yet
CorrIdle ==
    [pc |-> "idle", via |-> "none", text |-> "", reply |-> NoReply,
     correction |-> Uncorrected(""), status |-> 0, failed |-> FALSE,
     returned |-> ""]

\* restaurants, people, meals and meal_people: the clients of the relational
\* part, the meal ids, the names that requests give for people (a person
\* that is not in the table at the start)
Clients == 1..MaxClients
RelMealIds == 1..(1 + MaxRelMeals)
PeopleNames == {"Bob"}
NoNames == <<"undefined">>

RelNoRow == [exists |-> FALSE, restaurantId |-> 0, photoUrl |-> FALSE]

ClientIdle ==
    [kind |-> "none", pc |-> "idle", id |-> 0, restaurantName |-> FALSE,
     peopleNames |-> NoNames, restaurantId |-> 0, found |-> FALSE,
     photoUrl |-> FALSE, status |-> 0]

\* the database before the first request: meal 1 with a legacy photo file,
\* linked to the person Ann; no restaurant
RelIdle ==
    [restaurants |-> 0, people |-> {"Ann"},
     mealRows |-> [m \in RelMealIds |->
                     IF m = 1 THEN [exists |-> TRUE, restaurantId |-> 0,
                                    photoUrl |-> TRUE]
                     ELSE RelNoRow],
     links |-> [m \in RelMealIds |-> IF m = 1 THEN 1 ELSE 0],
     photoFiles |-> {1}, nextMeal |-> 2,
     client |-> [p \in Clients |-> ClientIdle]]

\* POST /api/analyze-photo: the temp files under uploads/ and the requests
AnalyzeIdle ==
    [uploads |-> {}, arrived |-> 0, accepted |-> 0,
     client |-> [p \in Clients |-> [pc |-> "idle", file |-> 0, status |-> 0]]]

\* the meal edit dialog: form.photo and newImagePreview are 0 (undefined,
\* null) or the file chosen; data and description are data.photo and
\* data.description of the submission; formData is the FormData of the last
\* PATCH
NoForm == [sent |-> FALSE, photo |-> 0, deleteImage |-> FALSE]
DialogIdle ==
    [open |-> FALSE, imageUrl |-> FALSE, photo |-> 0, newImagePreview |-> 0,
     hasImageToDelete |-> FALSE, pc |-> "idle", data |-> 0,
     description |-> "none", formData |-> NoForm]

VARIABLES meals, files, nextId, req, codec, form, corr, rel, analyze, dialog

vars == <<meals, files, nextId, req, codec, form, corr, rel, analyze, dialog>>

Init ==
    /\ \E present \in SUBSET (1..MaxLegacy) :
         /\ meals = [m \in MealIds |-> IF m <= MaxLegacy THEN LegacyRow(m) ELSE NoRow]
         /\ files = { PhotoFile(m) : m \in present }
    /\ nextId = MaxLegacy + 1
    /\ req = [r \in Reqs |-> IdleReq]
    /\ rel = RelIdle /\ analyze = AnalyzeIdle /\ dialog = DialogIdle
    /\ codec = CodecIdle
    /\ form = FormIdle
    /\ corr = CorrIdle

(***************************************************************************)
(* Scheduling.  The handlers run on one event loop and interleave at their *)
(* awaits.  A step that touches nothing shared (decoding, encoding, the    *)
(* request's own temp file, sending the response) commutes with the steps  *)
(* of the other requests, so it is taken right after the step before it:   *)
(* a request at one of the Urgent positions is the only one that moves.    *)
(* A request that has responded is retired and its slot is free again; a   *)
(* temp file it left behind is not followed any further.                   *)
(***************************************************************************)
Urgent == {"compact", "fallback", "create", "image", "done"}

MayStep(r) == \A q \in Reqs \ {r} : req[q].pc \notin Urgent

\* upload.single("photo") has stored the accepted file under uploads/
\* before the handler body starts
Arrives(r) ==
    /\ req[r].pc = "idle"
    /\ MayStep(r)
    /\ \A q \in Reqs : q < r => req[q].pc # "idle"

Received(r, kind, id, file, deleteImage) ==
    [IdleReq EXCEPT !.pc = "lookup", !.kind = kind, !.id = id, !.file = file,
                    !.deleteImage = deleteImage]

Retire(r) ==
    /\ req[r].pc = "done"
    /\ req' = [req EXCEPT ![r] = IdleReq]
    /\ files' = files \ {TempFile(r)}
    /\ UNCHANGED <<meals, nextId, codec, form, corr, rel, analyze, dialog>>

\* the ids a client asks for: the rows created so far and the next one
KnownIds == { m \in MealIds : m <= nextId }

\* the fields of currentMeal that the PATCH and DELETE handlers read
CurrentMeal(row) == [NoRow EXCEPT !.photoUrl = row.photoUrl]

\* storage.getMeal: the row with the given id, or undefined
getMeal(id) == IF id \in MealIds THEN meals[id] ELSE NoRow

\* res.status(status).json({message}) / res.send: the request record rq ends
Respond(rq, status, message, entry) ==
    [rq EXCEPT !.pc = "done", !.status = status, !.message = message,
               !.log = Append(@, entry)]

(***************************************************************************)
(* QOIImageService                                                         *)
(***************************************************************************)
\* the values Math.round(n / d) can take: the quotient is computed in
\* double precision, so an exact tie falls on either side
Round(n, d) ==
    LET q == n \div d
        rem == n % d
    IN  IF 2 * rem < d THEN {q}
        ELSE IF 2 * rem > d THEN {q + 1}
        ELSE {q, q + 1}

Max(a, b) == IF a >= b THEN a ELSE b

Min(a, b) == IF a <= b THEN a ELSE b

\* ScaledDimensions without the test of line 34: the ratio is always applied
ScaledDimensions_AlwaysScales(w, h) ==
    Round(w * maxDimension, Max(w, h)) \X Round(h * maxDimension, Max(w, h))

\* ScaledDimensions with Math.max in place of Math.min
ScaledDimensions_MaxRatio(w, h) ==
    IF w > maxDimension \/ h > maxDimension
    THEN Round(w * maxDimension, Min(w, h)) \X Round(h * maxDimension, Min(w, h))
    ELSE {<<w, h>>}

\* width and height after the maxDimension clamp
ScaledDimensions(w, h) ==
    IF w > maxDimension \/ h > maxDimension
    THEN Round(w * maxDimension, Max(w, h)) \X Round(h * maxDimension, Max(w, h))
    ELSE {<<w, h>>}

\* the outcomes of processImageForStorage(imageBuffer); encodeThrows is the
\* codec rejecting the raw buffer
processImageForStorage(imageBuffer, encodeThrows) ==
    IF imageBuffer.fmt # "img" \/ imageBuffer.w = 0 \/ imageBuffer.h = 0
    THEN {Failed}
    ELSE { IF d[1] <= 0 \/ d[2] <= 0 \/ encodeThrows
           THEN Failed
           ELSE [ok |-> TRUE,
                 qoiData |-> Base64Encode(Upload("qoi", d[1], d[2])),
                 width |-> d[1], height |-> d[2]]
           : d \in ScaledDimensions(imageBuffer.w, imageBuffer.h) }

\* a || b of JavaScript on a nullable number
OrElse(a, b) == IF a = Null \/ a = Undef \/ a = 0 THEN b ELSE a

\* convertQOIToWebFormat with width and height of the raw input exchanged
convertQOIToWebFormat_Transposed(qoiData, width, height) ==
    LET decoded == Base64Decode(qoiData)
    IN  IF decoded.fmt # "qoi"
        THEN NoPng
        ELSE [ok |-> TRUE, w |-> OrElse(decoded.h, height),
              h |-> OrElse(decoded.w, width)]

\* convertQOIToWebFormat(qoiData, width, height): the PNG, or a throw
convertQOIToWebFormat(qoiData, width, height) ==
    LET decoded == Base64Decode(qoiData)
    IN  IF decoded.fmt # "qoi"
        THEN NoPng
        ELSE [ok |-> TRUE, w |-> OrElse(decoded.w, width),
              h |-> OrElse(decoded.h, height)]

(***************************************************************************)
(* upload.single("photo"), the middleware in front of POST /api/meals and  *)
(* PATCH /api/meals/:id                                                    *)
(***************************************************************************)
\* the message of the error that multer passes to next(): the Error of the
\* fileFilter, or the MulterError LIMIT_FILE_SIZE
UploadError(file) ==
    IF file = NotImageMime THEN "Only image files are allowed"
    ELSE "File too large"

\* neither error carries a status, so the answer is a 500
UploadErrorStatus == 500

\* UploadRefused calling next() without the error: the handler body runs
UploadRefused_CallsNext(r) ==
    /\ Arrives(r)
    /\ \E kind \in {"post", "patch"}, file \in Refused :
         req' = [req EXCEPT ![r] =
           [IdleReq EXCEPT !.pc = "create", !.kind = kind, !.file = file,
                           !.log = <<"upload:refused">>]]
    /\ UNCHANGED <<meals, files, nextId, codec, form, corr, rel, analyze, dialog>>

\* the fileFilter or the size limit refuses the upload: the error goes to the
\* error handler, the route handler is skipped, nothing stays under uploads/
UploadRefused(r) ==
    /\ Arrives(r)
    /\ \E kind \in {"post", "patch"}, file \in Refused :
         req' = [req EXCEPT ![r] =
           Respond([IdleReq EXCEPT !.kind = kind, !.file = file],
                   UploadErrorStatus, UploadError(file), "upload:refused")]
    /\ UNCHANGED <<meals, files, nextId, codec, form, corr, rel, analyze, dialog>>

(***************************************************************************)
(* GET /api/images/:id                                                     *)
(***************************************************************************)
\* the identifier sharp is not bound in the module of the routes: the only
\* binding is the const of the catch block in POST /api/meals
sharpInScope == FALSE

\* GetImageLookup testing only !meal: a row without payload goes on to the
\* decodes
GetImageLookup_NoPayloadTest(r) ==
    /\ Arrives(r)
    /\ \E id \in KnownIds, dbThrows \in BOOLEAN :
         LET rq == Received(r, "getImage", id, NoBytes, FALSE)
             meal == getMeal(id)
         IN  req' = [req EXCEPT ![r] =
               IF dbThrows
               THEN Respond(rq, 500, "Failed to serve image", "lookup:throw")
               ELSE IF ~meal.exists
               THEN Respond([rq EXCEPT !.cur = meal, !.log = <<"lookup">>],
                            404, "Image not found", "notFound")
               ELSE [rq EXCEPT !.pc = "compact", !.cur = meal,
                               !.log = Append(@, "lookup")]]
    /\ UNCHANGED <<meals, files, nextId, codec, form, corr, rel, analyze, dialog>>

GetImageLookup(r) ==
    /\ Arrives(r)
    /\ \E id \in KnownIds, dbThrows \in BOOLEAN :
         LET rq == Received(r, "getImage", id, NoBytes, FALSE)
             meal == getMeal(id)
         IN  req' = [req EXCEPT ![r] =
               IF dbThrows
               THEN Respond(rq, 500, "Failed to serve image", "lookup:throw")
               ELSE IF ~meal.exists \/ meal.imageData.enc # "b64"
               THEN Respond([rq EXCEPT !.cur = meal, !.log = <<"lookup">>],
                            404, "Image not found", "notFound")
               ELSE [rq EXCEPT !.pc = "compact", !.cur = meal,
                               !.log = Append(@, "lookup")]]
    /\ UNCHANGED <<meals, files, nextId, codec, form, corr, rel, analyze, dialog>>

\* GetImageTryCompact without the inner try: a decode that throws reaches the
\* outer catch
GetImageTryCompact_SkipsFallback(r) ==
    /\ req[r].pc = "compact" /\ MayStep(r)
    /\ LET meal == req[r].cur
           png == convertQOIToWebFormat(meal.imageData,
                                        OrElse(meal.imageWidth, DefaultWidth),
                                        OrElse(meal.imageHeight, DefaultHeight))
       IN  req' = [req EXCEPT ![r] =
             IF png.ok
             THEN Respond([@ EXCEPT !.imageWidth = png.w, !.imageHeight = png.h],
                          200, "image/png", "compact:ok")
             ELSE Respond(@, 500, "Failed to serve image", "compact:throw")]
    /\ UNCHANGED <<meals, files, nextId, codec, form, corr, rel, analyze, dialog>>

GetImageTryCompact(r) ==
    /\ req[r].pc = "compact" /\ MayStep(r)
    /\ LET meal == req[r].cur
           png == convertQOIToWebFormat(meal.imageData,
                                        OrElse(meal.imageWidth, DefaultWidth),
                                        OrElse(meal.imageHeight, DefaultHeight))
       IN  req' = [req EXCEPT ![r] =
             IF png.ok
             THEN Respond([@ EXCEPT !.imageWidth = png.w, !.imageHeight = png.h],
                          200, "image/png", "compact:ok")
             ELSE [@ EXCEPT !.pc = "fallback",
                            !.log = Append(@, "compact:throw")]]
    /\ UNCHANGED <<meals, files, nextId, codec, form, corr, rel, analyze, dialog>>

\* GetImageTryFallback storing what it decoded: the read rewrites the row
GetImageTryFallback_Rewrites(r) ==
    /\ req[r].pc = "fallback" /\ MayStep(r)
    /\ req' = [req EXCEPT ![r] =
         Respond(@, 500, "Failed to serve image", "fallback:throw")]
    /\ meals' = [meals EXCEPT ![req[r].id].imageData =
                   Base64Encode(Upload("qoi", DefaultWidth, DefaultHeight))]
    /\ UNCHANGED <<files, nextId, codec, form, corr, rel, analyze, dialog>>

GetImageTryFallback(r) ==
    /\ req[r].pc = "fallback" /\ MayStep(r)
    /\ LET imageBuffer == Base64Decode(req[r].cur.imageData)
       IN  req' = [req EXCEPT ![r] =
             IF sharpInScope /\ imageBuffer.fmt \in {"img", "nodims"}
             THEN Respond([@ EXCEPT !.imageWidth = imageBuffer.w,
                                    !.imageHeight = imageBuffer.h],
                          200, "image/png", "fallback:ok")
             ELSE Respond(@, 500, "Failed to serve image", "fallback:throw")]
    /\ UNCHANGED <<meals, files, nextId, codec, form, corr, rel, analyze, dialog>>

(***************************************************************************)
(* safeDeleteFile: existsSync, then the awaited unlink.  Another request   *)
(* can remove the file between the two.                                    *)
(***************************************************************************)
ActualPath(filePath) ==
    IF filePath[1] = "/uploads/" THEN <<"uploads/", filePath[2], filePath[3]>>
    ELSE filePath

\* what the caller does once safeDeleteFile has returned; neither caller
\* reads the result
AfterSafeDelete(rq, result) ==
    IF rq.ret = "respond204"
    THEN Respond(rq, 204, "", result)
    ELSE [rq EXCEPT !.pc = rq.ret, !.log = Append(@, result)]

safeDeleteFileExists(r) ==
    /\ req[r].pc = "safeDelete" /\ MayStep(r)
    /\ LET filePath == req[r].cur.photoUrl IN
       req' = [req EXCEPT ![r] =
         IF filePath = NoFile THEN AfterSafeDelete(@, "safeDelete:false")
         ELSE IF ActualPath(filePath) \in files THEN [@ EXCEPT !.pc = "unlink"]
         ELSE AfterSafeDelete(@, "safeDelete:false")]
    /\ UNCHANGED <<meals, files, nextId, codec, form, corr, rel, analyze, dialog>>

\* safeDeleteFileUnlink without the catch: a failing unlink reaches the catch
\* of the route
safeDeleteFileUnlink_Rethrows(r) ==
    /\ req[r].pc = "unlink" /\ MayStep(r)
    /\ \E unlinkThrows \in BOOLEAN :
         LET actualPath == ActualPath(req[r].cur.photoUrl) IN
         IF actualPath \in files /\ ~unlinkThrows
         THEN /\ files' = files \ {actualPath}
              /\ req' = [req EXCEPT ![r] = AfterSafeDelete(@, "safeDelete:true")]
         ELSE /\ files' = files
              /\ req' = [req EXCEPT ![r] =
                   Respond(@, IF req[r].ret = "respond204" THEN 500 ELSE 400,
                           "Failed", "safeDelete:throw")]
    /\ UNCHANGED <<meals, nextId, codec, form, corr, rel, analyze, dialog>>

\* the outcome of the unlink and of the catch around it
safeDeleteFileUnlink(r) ==
    /\ req[r].pc = "unlink" /\ MayStep(r)
    /\ \E unlinkThrows \in BOOLEAN :
         LET actualPath == ActualPath(req[r].cur.photoUrl) IN
         IF actualPath \in files /\ ~unlinkThrows
         THEN /\ files' = files \ {actualPath}
              /\ req' = [req EXCEPT ![r] = AfterSafeDelete(@, "safeDelete:true")]
         ELSE /\ files' = files
              /\ req' = [req EXCEPT ![r] = AfterSafeDelete(@, "safeDelete:caught")]
    /\ UNCHANGED <<meals, nextId, codec, form, corr, rel, analyze, dialog>>

(***************************************************************************)
(* POST /api/meals                                                         *)
(***************************************************************************)
\* the image variables after the block "if (req.file) { try ... catch }",
\* and whether the block left through its catch
PostMealImageLocals(imageBuffer, aiThrows, encodeThrows, requireThrows) ==
    IF aiThrows
    THEN {[imageData |-> UndefText, imageWidth |-> Undef, imageHeight |-> Undef,
           threw |-> TRUE, log |-> <<"ai:throw">>]}
    ELSE { IF qoiResult.ok
           THEN [imageData |-> qoiResult.qoiData, imageWidth |-> qoiResult.width,
                 imageHeight |-> qoiResult.height, threw |-> FALSE,
                 log |-> <<"qoi:ok">>]
           ELSE IF requireThrows
           THEN [imageData |-> UndefText, imageWidth |-> Undef,
                 imageHeight |-> Undef, threw |-> TRUE,
                 log |-> <<"qoi:throw", "require:throw">>]
           ELSE IF imageBuffer.fmt = "garbage"
           THEN [imageData |-> Base64Encode(imageBuffer), imageWidth |-> Undef,
                 imageHeight |-> Undef, threw |-> TRUE,
                 log |-> <<"qoi:throw", "metadata:throw">>]
           ELSE [imageData |-> Base64Encode(imageBuffer),
                 imageWidth |-> OrElse(imageBuffer.w, DefaultWidth),
                 imageHeight |-> OrElse(imageBuffer.h, DefaultHeight),
                 threw |-> FALSE, log |-> <<"qoi:throw", "fallback:ok">>]
           : qoiResult \in processImageForStorage(imageBuffer, encodeThrows) }

\* the block followed by its two unlinks of the temp file: the one after the
\* processing and the one of the catch, whose failure is swallowed
PostMealImageOutcomes(file) ==
    { [imageData |-> v.imageData, imageWidth |-> v.imageWidth,
       imageHeight |-> v.imageHeight,
       removed |-> IF v.threw THEN ~u[2] ELSE ~u[1] \/ ~u[2],
       log |-> v.log
               \o (IF ~v.threw /\ u[1] THEN <<"unlink:throw">> ELSE << >>)
               \o (IF (v.threw \/ u[1]) /\ u[2] THEN <<"unlinkAgain:throw">>
                   ELSE << >>)]
      : v \in UNION { PostMealImageLocals(file, e[1], e[2], e[3])
                      : e \in BOOLEAN \X BOOLEAN \X BOOLEAN },
        u \in BOOLEAN \X BOOLEAN }

PostMealImage(r) ==
    /\ Arrives(r)
    /\ nextId \in MealIds
    /\ \E file \in Uploads \cup {NoBytes} :
         LET rq == Received(r, "post", 0, file, FALSE) IN
         IF file = NoBytes
         THEN /\ req' = [req EXCEPT ![r] = [rq EXCEPT !.pc = "create"]]
              /\ files' = files
         ELSE \E o \in PostMealImageOutcomes(file) :
              /\ req' = [req EXCEPT ![r] =
                   [rq EXCEPT !.pc = "create", !.imageData = o.imageData,
                              !.imageWidth = o.imageWidth,
                              !.imageHeight = o.imageHeight, !.log = o.log]]
              /\ files' = IF o.removed THEN files ELSE files \cup {TempFile(r)}
    /\ UNCHANGED <<meals, nextId, codec, form, corr, rel, analyze, dialog>>

\* undefined columns of an insert are stored as NULL
ColumnText(t) == IF t.enc = "undef" THEN NullText ELSE t
ColumnInt(n) == IF n = Undef THEN Null ELSE n

\* peopleThrows is a statement of createMeal after its insert of the meal row
\* throwing: the people are looked up, created and linked, and the meal is
\* read again, outside any transaction
PostMealCreate(r) ==
    /\ req[r].pc = "create" /\ MayStep(r)
    /\ \E bodyThrows, dbThrows, peopleThrows \in BOOLEAN :
         IF bodyThrows \/ dbThrows
         THEN /\ req' = [req EXCEPT ![r] =
                   Respond(@, 400, "Failed to create meal", "create:throw")]
              /\ meals' = meals
              /\ nextId' = nextId
         ELSE /\ meals' = [meals EXCEPT ![nextId] =
                   [exists |-> TRUE, photoUrl |-> NoFile,
                    imageData |-> ColumnText(req[r].imageData),
                    imageWidth |-> ColumnInt(req[r].imageWidth),
                    imageHeight |-> ColumnInt(req[r].imageHeight)]]
              /\ nextId' = nextId + 1
              /\ req' = [req EXCEPT ![r] =
                   IF peopleThrows
                   THEN Respond([@ EXCEPT !.id = nextId], 400,
                                "Failed to create meal", "create:people:throw")
                   ELSE Respond([@ EXCEPT !.id = nextId], 201, "", "create:ok")]
    /\ UNCHANGED <<files, codec, form, corr, rel, analyze, dialog>>

(***************************************************************************)
(* PATCH /api/meals/:id                                                    *)
(***************************************************************************)
PatchMealLookup(r) ==
    /\ Arrives(r)
    /\ \E id \in KnownIds, file \in {Unread, NoBytes}, dbThrows \in BOOLEAN :
         LET rq == Received(r, "patch", id, file, FALSE) IN
         /\ req' = [req EXCEPT ![r] =
              IF dbThrows
              THEN Respond(rq, 400, "Failed to update meal", "lookup:throw")
              ELSE [rq EXCEPT !.pc = "image", !.cur = CurrentMeal(getMeal(id)),
                              !.log = Append(@, "lookup")]]
         /\ files' = IF file # NoBytes THEN files \cup {TempFile(r)} ELSE files
    /\ UNCHANGED <<meals, nextId, codec, form, corr, rel, analyze, dialog>>

\* where the handler continues after its image block
PatchMealAfterImage(r) ==
    IF req[r].cur.photoUrl # NoFile THEN "safeDelete" ELSE "update"

\* req.file is read by fs.readFileSync and req.body.deleteImage by the test
\* after the upload block: the values are taken where they are read
PatchMealImage(r) ==
    /\ req[r].pc = "image" /\ MayStep(r)
    /\ \E file \in IF req[r].file = NoBytes THEN {NoBytes} ELSE Uploads :
       \E deleteImage, encodeThrows, unlinkThrows, unlinkAgainThrows \in BOOLEAN :
       \E qoiResult \in processImageForStorage(file, encodeThrows) :
         IF file # NoBytes
         THEN IF qoiResult.ok /\ ~unlinkThrows
              THEN /\ req' = [req EXCEPT ![r] =
                        [@ EXCEPT !.pc = PatchMealAfterImage(r), !.ret = "update",
                                  !.file = file, !.deleteImage = deleteImage,
                                  !.imageData = qoiResult.qoiData,
                                  !.imageWidth = qoiResult.width,
                                  !.imageHeight = qoiResult.height,
                                  !.log = Append(@, "qoi:ok")]]
                   /\ files' = files \ {TempFile(r)}
              ELSE /\ req' = [req EXCEPT ![r] =
                        Respond([@ EXCEPT !.file = file,
                                   !.log = @ \o <<IF qoiResult.ok THEN "unlink:throw"
                                                  ELSE "qoi:throw">>
                                             \o (IF unlinkAgainThrows
                                                 THEN <<"unlinkAgain:throw">>
                                                 ELSE << >>)],
                                400, "Failed to process image for storage",
                                "rethrow")]
                   /\ files' = IF unlinkAgainThrows THEN files
                               ELSE files \ {TempFile(r)}
         ELSE IF deleteImage
         THEN /\ req' = [req EXCEPT ![r] =
                   [@ EXCEPT !.pc = PatchMealAfterImage(r), !.ret = "update",
                             !.deleteImage = TRUE, !.photoSet = TRUE, !.photoUrl = NoFile,
                             !.imageData = NullText, !.imageWidth = Null,
                             !.imageHeight = Null,
                             !.log = Append(@, "deleteImage")]]
              /\ files' = files
         ELSE /\ req' = [req EXCEPT ![r].pc = "update"]
              /\ files' = files
    /\ UNCHANGED <<meals, nextId, codec, form, corr, rel, analyze, dialog>>

\* UpdatedRow without the photoUrl key: the delete-image flag leaves the
\* photo_url column alone
UpdatedRow_KeepsPhotoUrl(row, rq) ==
    [row EXCEPT
       !.imageData = IF rq.imageData.enc # "undef" THEN rq.imageData ELSE @,
       !.imageWidth = IF rq.imageWidth # Undef THEN rq.imageWidth ELSE @,
       !.imageHeight = IF rq.imageHeight # Undef THEN rq.imageHeight ELSE @]

\* UpdatedRow writing the payload without the dimensions
UpdatedRow_PayloadOnly(row, rq) ==
    [row EXCEPT
       !.photoUrl = IF rq.photoSet THEN rq.photoUrl ELSE @,
       !.imageData = IF rq.imageData.enc # "undef" THEN rq.imageData ELSE @]

\* UpdatedRow writing null for the image keys that updateData does not have
UpdatedRow_ClearsImage(row, rq) ==
    [row EXCEPT
       !.photoUrl = IF rq.photoSet THEN rq.photoUrl ELSE @,
       !.imageData = IF rq.imageData.enc # "undef" THEN rq.imageData ELSE NullText,
       !.imageWidth = IF rq.imageWidth # Undef THEN rq.imageWidth ELSE Null,
       !.imageHeight = IF rq.imageHeight # Undef THEN rq.imageHeight ELSE Null]

\* db.update(meals).set(mealData): the keys present in updateData
UpdatedRow(row, rq) ==
    [row EXCEPT
       !.photoUrl = IF rq.photoSet THEN rq.photoUrl ELSE @,
       !.imageData = IF rq.imageData.enc # "undef" THEN rq.imageData ELSE @,
       !.imageWidth = IF rq.imageWidth # Undef THEN rq.imageWidth ELSE @,
       !.imageHeight = IF rq.imageHeight # Undef THEN rq.imageHeight ELSE @]

\* peopleThrows is a statement of updateMeal after its UPDATE throwing
PatchMealUpdate(r) ==
    /\ req[r].pc = "update" /\ MayStep(r)
    /\ \E bodyThrows, dbThrows, peopleThrows \in BOOLEAN :
         LET id == req[r].id IN
         IF bodyThrows \/ dbThrows
         THEN /\ req' = [req EXCEPT ![r] =
                   Respond(@, 400, "Failed to update meal", "update:throw")]
              /\ meals' = meals
         ELSE IF ~getMeal(id).exists
         THEN /\ req' = [req EXCEPT ![r] =
                   Respond(@, 400, "Failed to update meal", "update:missing")]
              /\ meals' = meals
         ELSE /\ meals' = [meals EXCEPT ![id] = UpdatedRow(@, req[r])]
              /\ req' = [req EXCEPT ![r] =
                   IF peopleThrows
                   THEN Respond(@, 400, "Failed to update meal",
                                "update:people:throw")
                   ELSE Respond(@, 200, "", "update:ok")]
    /\ UNCHANGED <<files, nextId, codec, form, corr, rel, analyze, dialog>>

(***************************************************************************)
(* DELETE /api/meals/:id                                                   *)
(***************************************************************************)
DeleteMealLookup(r) ==
    /\ Arrives(r)
    /\ \E id \in KnownIds, dbThrows \in BOOLEAN :
         LET rq == Received(r, "delete", id, NoBytes, FALSE) IN
         req' = [req EXCEPT ![r] =
           IF dbThrows
           THEN Respond(rq, 500, "Failed to delete meal", "lookup:throw")
           ELSE [rq EXCEPT !.pc = "deleteRow", !.cur = CurrentMeal(getMeal(id)),
                           !.log = Append(@, "lookup")]]
    /\ UNCHANGED <<meals, files, nextId, codec, form, corr, rel, analyze, dialog>>

\* storage.deleteMeal, then the test of meal?.photoUrl
DeleteMealRow(r) ==
    /\ req[r].pc = "deleteRow" /\ MayStep(r)
    /\ \E dbThrows \in BOOLEAN :
         IF dbThrows
         THEN /\ req' = [req EXCEPT ![r] =
                   Respond(@, 500, "Failed to delete meal", "deleteMeal:throw")]
              /\ meals' = meals
         ELSE /\ meals' = [meals EXCEPT ![req[r].id] = NoRow]
              /\ req' = [req EXCEPT ![r] =
                   IF req[r].cur.photoUrl # NoFile
                   THEN [@ EXCEPT !.pc = "safeDelete", !.ret = "respond204",
                                  !.log = Append(@, "deleteMeal")]
                   ELSE Respond(@, 204, "", "deleteMeal")]
    /\ UNCHANGED <<files, nextId, codec, form, corr, rel, analyze, dialog>>

(***************************************************************************)
(* The server                                                              *)
(***************************************************************************)
Next ==
    \/ \E r \in Reqs : UploadRefused(r)
    \/ \E r \in Reqs : GetImageLookup(r)
    \/ \E r \in Reqs : GetImageTryCompact(r)
    \/ \E r \in Reqs : GetImageTryFallback(r)
    \/ \E r \in Reqs : PostMealImage(r)
    \/ \E r \in Reqs : PostMealCreate(r)
    \/ \E r \in Reqs : PatchMealLookup(r)
    \/ \E r \in Reqs : PatchMealImage(r)
    \/ \E r \in Reqs : PatchMealUpdate(r)
    \/ \E r \in Reqs : DeleteMealLookup(r)
    \/ \E r \in Reqs : DeleteMealRow(r)
    \/ \E r \in Reqs : safeDeleteFileExists(r)
    \/ \E r \in Reqs : safeDeleteFileUnlink(r)
    \/ \E r \in Reqs : Retire(r)

Spec == Init /\ [][Next]_vars

TypeOK ==
    /\ \A r \in Reqs : req[r].status \in {0, 200, 201, 204, 400, 404, 500}
    /\ nextId \in 1..(MaxLegacy + MaxCreated + 1)

(***************************************************************************)
(* The codec adapter on its own: processImageForStorage applied to photos  *)
(* of sampled intrinsic sizes, with and without a failing encoder.         *)
(***************************************************************************)
\* sizes on a grid, the sizes around maxDimension, and sizes whose scaled
\* value falls exactly between two integers (2816 x 715, 3328 x 169)
Sizes ==
    { 1 + k * DimStep : k \in 0..DimCount }
      \cup { maxDimension - 1, maxDimension, maxDimension + 1,
             2 * maxDimension, 2 * maxDimension + 1, 169, 715, 2816, 3328 }

\* the buffers given to processImageForStorage: photos of every size of the
\* grid, and bytes of which sharp cannot tell the width or the height
CodecInputs ==
    { Upload("img", w, h) : w \in Sizes, h \in Sizes }
      \cup { Upload("nodims", 0, 0), Upload("garbage", 0, 0) }
      \cup { Upload("img", 0, h) : h \in {1, maxDimension} }
      \cup { Upload("img", w, 0) : w \in {1, maxDimension} }

CodecInit ==
    /\ meals = [m \in MealIds |-> NoRow]
    /\ files = {}
    /\ nextId = 1
    /\ req = [r \in Reqs |-> IdleReq]
    /\ rel = RelIdle /\ analyze = AnalyzeIdle /\ dialog = DialogIdle
    /\ form = FormIdle
    /\ corr = CorrIdle
    /\ \E imageBuffer \in CodecInputs :
         codec = [CodecIdle EXCEPT !.imageBuffer = imageBuffer]

CodecProcessImage ==
    /\ codec.pc = "idle"
    /\ \E encodeThrows \in BOOLEAN :
       \E result \in processImageForStorage(codec.imageBuffer, encodeThrows) :
         codec' = [codec EXCEPT !.pc = "returned", !.result = result]
    /\ UNCHANGED <<meals, files, nextId, req, form, corr, rel, analyze, dialog>>

\* the payload that processImageForStorage returned is converted back with
\* the width and height that it returned
CodecConvertToWeb ==
    /\ codec.pc = "returned" /\ codec.result.ok
    /\ codec' = [codec EXCEPT
         !.pc = "converted",
         !.png = convertQOIToWebFormat(codec.result.qoiData, codec.result.width,
                                       codec.result.height)]
    /\ UNCHANGED <<meals, files, nextId, req, form, corr, rel, analyze, dialog>>

CodecNext == CodecProcessImage \/ CodecConvertToWeb

SpecCodec == CodecInit /\ [][CodecNext]_vars

(***************************************************************************)
(* The rating fields of the form on their own: the formData of             *)
(* POST /api/meals and of PATCH /api/meals/:id, applied to one meal.       *)
(***************************************************************************)
\* a field of req.body: the characters of its text, or absent
Text(chars) == [present |-> TRUE, chars |-> chars]
AbsentField == [present |-> FALSE, chars |-> << >>]

\* the texts a client sends in a rating field
RatingTexts ==
    { AbsentField, Text(<< >>), Text(<<"3">>), Text(<<"-", "3">>),
      Text(<<"7">>), Text(<<"x">>) }

NaN == [nan |-> TRUE, n |-> 0]
Number(n) == [nan |-> FALSE, n |-> n]

DigitChars == <<"0", "1", "2", "3", "4", "5", "6", "7", "8", "9">>
IsDigit(c) == \E i \in 1..10 : DigitChars[i] = c
DigitValue(c) == (CHOOSE i \in 1..10 : DigitChars[i] = c) - 1

RECURSIVE LeadingDigits(_)
LeadingDigits(chars) ==
    IF chars = << >> \/ ~IsDigit(Head(chars)) THEN << >>
    ELSE <<Head(chars)>> \o LeadingDigits(Tail(chars))

RECURSIVE DecimalValue(_)
DecimalValue(digits) ==
    IF digits = << >> THEN 0
    ELSE 10 * DecimalValue(SubSeq(digits, 1, Len(digits) - 1))
           + DigitValue(digits[Len(digits)])

\* parseInt(text): an optional sign and the leading digits, NaN without a
\* digit; parseInt(undefined) is NaN
parseInt(t) ==
    LET signed == t.chars # << >> /\ Head(t.chars) \in {"-", "+"}
        digits == LeadingDigits(IF signed THEN Tail(t.chars) ELSE t.chars)
    IN  IF ~t.present \/ digits = << >> THEN NaN
        ELSE IF signed /\ Head(t.chars) = "-" THEN Number(0 - DecimalValue(digits))
        ELSE Number(DecimalValue(digits))

\* parseInt(text) || 0
OrZero(x) == IF x.nan \/ x.n = 0 THEN 0 ELSE x.n

\* a body field used as a condition: absent and "" are falsy
Truthy(t) == t.present /\ t.chars # << >>

\* formData of POST /api/meals, insertMealSchema.parse, storage.createMeal:
\* the schema asks the ratings to be integers, the columns are integers
PostMealRatings ==
    /\ \E body \in [RatingFields -> RatingTexts], dbThrows \in BOOLEAN :
         form' = IF dbThrows
                 THEN [form EXCEPT !.pc = "done", !.status = 400]
                 ELSE [pc |-> "done", exists |-> TRUE,
                       ratings |-> [f \in RatingFields |-> OrZero(parseInt(body[f]))],
                       status |-> 201]
    /\ UNCHANGED <<meals, files, nextId, req, codec, corr, rel, analyze, dialog>>

\* formData and updateData of PATCH /api/meals/:id, storage.updateMeal: a
\* falsy field is left out of the update, a NaN is refused by the database
PatchMealRatings ==
    /\ form.exists
    /\ \E body \in [RatingFields -> RatingTexts], dbThrows \in BOOLEAN :
         LET given == { f \in RatingFields : Truthy(body[f]) } IN
         form' = IF dbThrows \/ \E f \in given : parseInt(body[f]).nan
                 THEN [form EXCEPT !.pc = "done", !.status = 400]
                 ELSE [form EXCEPT
                         !.pc = "done", !.status = 200,
                         !.ratings = [f \in RatingFields |->
                                        IF f \in given THEN parseInt(body[f]).n
                                        ELSE form.ratings[f]]]
    /\ UNCHANGED <<meals, files, nextId, req, codec, corr, rel, analyze, dialog>>

RatingsInit ==
    /\ meals = [m \in MealIds |-> NoRow]
    /\ files = {}
    /\ nextId = 1
    /\ req = [r \in Reqs |-> IdleReq]
    /\ rel = RelIdle /\ analyze = AnalyzeIdle /\ dialog = DialogIdle
    /\ codec = CodecIdle
    /\ corr = CorrIdle
    /\ form = FormIdle

RatingsNext == PostMealRatings \/ PatchMealRatings

SpecRatings == RatingsInit /\ [][RatingsNext]_vars

(***************************************************************************)
(* Text correction on its own: AIService.correctDescription, the route     *)
(* POST /api/correct-text and the client's correctText.                    *)
(***************************************************************************)
\* the texts that are corrected: empty, blank, with an error, without
CorrTexts == {"", "  ", "zupa pomidorwa", "Zupa pomidorowa"}

\* description.trim().length === 0
IsBlank(text) == text \in {"", "  "}

Replies ==
    { Reply(kind, "<undefined>", "undefined", Undef)
      : kind \in {"apiError", "noChoices", "nullContent", "notJson", "jsonNull"} }
      \cup { Reply("object", t, m, c)
             : t \in {"<undefined>", "", "Zupa pomidorowa"},
               m \in {"undefined", "false", "true"},
               c \in {Undef, 0, 1} }

\* the replies on which a statement of the try block throws
ThrowingReplies == {"apiError", "noChoices", "notJson", "jsonNull"}

\* correctDescription without its try/catch
correctDescription_NoCatch(description, reply) ==
    IF description = "" \/ IsBlank(description) THEN Uncorrected(description)
    ELSE IF reply.kind \in ThrowingReplies
    THEN [Uncorrected(description) EXCEPT !.threw = TRUE]
    ELSE LET result == IF reply.kind = "nullContent"
                       THEN Reply("object", "<undefined>", "undefined", Undef)
                       ELSE reply
         IN  [threw |-> FALSE,
              correctedText |-> IF result.correctedText \in {"<undefined>", ""}
                                THEN description ELSE result.correctedText,
              correctionsMade |-> result.correctionsMade = "true",
              corrections |-> IF result.corrections = Undef THEN 0
                              ELSE result.corrections]

\* AIService.correctDescription(description) when the chat completion
\* answers with reply
correctDescription(description, reply) ==
    IF description = "" \/ IsBlank(description) THEN Uncorrected(description)
    ELSE IF reply.kind \in ThrowingReplies THEN Uncorrected(description)
    ELSE LET result == IF reply.kind = "nullContent"
                       THEN Reply("object", "<undefined>", "undefined", Undef)
                       ELSE reply
         IN  [threw |-> FALSE,
              correctedText |-> IF result.correctedText \in {"<undefined>", ""}
                                THEN description ELSE result.correctedText,
              correctionsMade |-> result.correctionsMade = "true",
              corrections |-> IF result.corrections = Undef THEN 0
                              ELSE result.corrections]

\* a direct call of the service
ServiceCorrectDescription ==
    /\ corr.pc = "idle" /\ corr.via = "service"
    /\ \E reply \in Replies :
         corr' = [corr EXCEPT !.pc = "described", !.reply = reply,
                              !.correction = correctDescription(corr.text, reply)]
    /\ UNCHANGED <<meals, files, nextId, req, codec, form, rel, analyze, dialog>>

\* correctText of the client up to its fetch; another HTTP client posts the
\* text as it is
ClientCorrectText ==
    /\ corr.pc = "idle" /\ corr.via \in {"client", "http"}
    /\ \E fetchThrows \in BOOLEAN :
         corr' = IF corr.via = "client" /\ (corr.text = "" \/ IsBlank(corr.text))
                 THEN [corr EXCEPT !.pc = "returned", !.returned = corr.text]
                 ELSE IF corr.via = "client" /\ fetchThrows
                 THEN [corr EXCEPT !.pc = "returned", !.failed = TRUE,
                                   !.returned = corr.text]
                 ELSE [corr EXCEPT !.pc = "route"]
    /\ UNCHANGED <<meals, files, nextId, req, codec, form, rel, analyze, dialog>>

\* app.post("/api/correct-text")
RouteCorrectText ==
    /\ corr.pc = "route"
    /\ \E reply \in Replies :
         LET correction == correctDescription(corr.text, reply) IN
         corr' = IF corr.text = ""
                 THEN [corr EXCEPT !.pc = "responded", !.status = 400]
                 ELSE IF correction.threw
                 THEN [corr EXCEPT !.pc = "responded", !.reply = reply,
                                   !.correction = correction, !.status = 500]
                 ELSE [corr EXCEPT !.pc = "responded", !.reply = reply,
                                   !.correction = correction, !.status = 200]
    /\ UNCHANGED <<meals, files, nextId, req, codec, form, rel, analyze, dialog>>

\* the rest of correctText: response.ok, response.json(), the catch
ClientReceive ==
    /\ corr.pc = "responded" /\ corr.via = "client"
    /\ \E jsonThrows \in BOOLEAN :
         corr' = IF corr.status # 200 \/ jsonThrows
                 THEN [corr EXCEPT !.pc = "returned", !.failed = TRUE,
                                   !.returned = corr.text]
                 ELSE [corr EXCEPT !.pc = "returned",
                                   !.returned = corr.correction.correctedText]
    /\ UNCHANGED <<meals, files, nextId, req, codec, form, rel, analyze, dialog>>

CorrInit ==
    /\ meals = [m \in MealIds |-> NoRow]
    /\ files = {}
    /\ nextId = 1
    /\ req = [r \in Reqs |-> IdleReq]
    /\ rel = RelIdle /\ analyze = AnalyzeIdle /\ dialog = DialogIdle
    /\ codec = CodecIdle
    /\ form = FormIdle
    /\ \E text \in CorrTexts, via \in {"service", "client", "http"} :
         corr = [CorrIdle EXCEPT !.text = text, !.via = via]

CorrNext ==
    \/ ServiceCorrectDescription
    \/ ClientCorrectText
    \/ RouteCorrectText
    \/ ClientReceive

SpecCorrect == CorrInit /\ [][CorrNext]_vars

(***************************************************************************)
(* Restaurants, people and meal_people.  The statements that the routes    *)
(* and DatabaseStorage run on the tables restaurants, people, meals and    *)
(* meal_people, one step per awaited statement, for MaxClients requests in *)
(* flight.  The image of a meal is left out here: a row has a payload for  *)
(* as long as it exists.  Dishes are handled by the same statements as     *)
(* restaurants and are not followed separately.                            *)
(***************************************************************************)
\* the response; the locals of the handler are gone
RelRespond(c, status) ==
    [ClientIdle EXCEPT !.kind = c.kind, !.id = c.id, !.found = c.found,
                       !.pc = "done", !.status = status]

\* the status of the catch of the route
RelErrorStatus(c) == IF c.kind = "delete" THEN 500 ELSE 400

\* the ids a client asks for: the rows created so far and the next one
RelKnownIds == { m \in RelMealIds : m <= rel.nextMeal }

\* where the route goes after the restaurant block
AfterRestaurant(c) == IF c.kind = "post" THEN "insertMeal" ELSE "updateRow"

\* where createMeal and updateMeal go once the people block is reached
AfterLinksCleared(c) ==
    IF c.peopleNames = << >> THEN "reread" ELSE "getPerson"

\* meal_people.meal_id without its reference to meals.id
ViolatesForeignKey_NoReference(statement, mealId) == FALSE

\* meal_people.meal_id references meals.id: a meal row that a meal_people
\* row points to cannot be deleted, and a meal_people row cannot be inserted
\* for a meal that has no row
ViolatesForeignKey(statement, mealId) ==
    IF statement = "deleteMeal" THEN rel.links[mealId] > 0
    ELSE ~rel.mealRows[mealId].exists

\* the requests that will insert a meal row and have not done so yet
InsertsAhead ==
    { q \in Clients : rel.client[q].pc \in {"getRestaurant", "createRestaurant",
                                             "insertMeal"}
                      /\ rel.client[q].kind = "post" }

\* POST /api/meals up to its first statement on these tables
RelPostMeal(p) ==
    /\ rel.client[p].pc = "idle"
    /\ rel.nextMeal + Cardinality(InsertsAhead) \in RelMealIds
    /\ \E restaurantName \in BOOLEAN,
          peopleNames \in {<< >>} \cup { <<n>> : n \in PeopleNames } :
         rel' = [rel EXCEPT !.client[p] =
           [ClientIdle EXCEPT !.kind = "post", !.restaurantName = restaurantName,
                              !.peopleNames = peopleNames,
                              !.pc = IF restaurantName THEN "getRestaurant"
                                     ELSE "insertMeal"]]
    /\ UNCHANGED <<meals, files, nextId, req, codec, form, corr, analyze, dialog>>

\* PATCH /api/meals/:id up to its first statement after getMeal
RelPatchMeal(p) ==
    /\ rel.client[p].pc = "idle"
    /\ \E id \in RelKnownIds, restaurantName \in BOOLEAN,
          peopleNames \in {NoNames, << >>} \cup { <<n>> : n \in PeopleNames } :
         rel' = [rel EXCEPT !.client[p] =
           [ClientIdle EXCEPT !.kind = "patch", !.id = id,
                              !.restaurantName = restaurantName,
                              !.peopleNames = peopleNames,
                              !.pc = IF restaurantName THEN "getRestaurant"
                                     ELSE "updateRow"]]
    /\ UNCHANGED <<meals, files, nextId, req, codec, form, corr, analyze, dialog>>

\* DELETE /api/meals/:id: getMeal
RelDeleteMeal(p) ==
    /\ rel.client[p].pc = "idle"
    /\ \E id \in RelKnownIds :
         rel' = [rel EXCEPT !.client[p] =
           [ClientIdle EXCEPT !.kind = "delete", !.id = id,
                              !.found = rel.mealRows[id].exists,
                              !.photoUrl = rel.mealRows[id].exists
                                             /\ rel.mealRows[id].photoUrl,
                              !.pc = "deleteLinks"]]
    /\ UNCHANGED <<meals, files, nextId, req, codec, form, corr, analyze, dialog>>

\* GET /api/images/:id: 404 without a row; the decoding of a payload ends in
\* 200 or 500
RelGetImage(p) ==
    /\ rel.client[p].pc = "idle"
    /\ \E id \in RelKnownIds, decodeThrows \in BOOLEAN :
         rel' = [rel EXCEPT !.client[p] =
           RelRespond([ClientIdle EXCEPT !.kind = "getImage", !.id = id],
                      IF ~rel.mealRows[id].exists THEN 404
                      ELSE IF decodeThrows THEN 500 ELSE 200)]
    /\ UNCHANGED <<meals, files, nextId, req, codec, form, corr, analyze, dialog>>

\* storage.getRestaurantByName: the first row of the select, if any
getRestaurantByName(p) ==
    /\ rel.client[p].pc = "getRestaurant"
    /\ IF rel.restaurants = 0
       THEN rel' = [rel EXCEPT !.client[p].pc = "createRestaurant"]
       ELSE \E restaurant \in 1..rel.restaurants :
              rel' = [rel EXCEPT !.client[p].restaurantId = restaurant,
                                 !.client[p].pc = AfterRestaurant(rel.client[p])]
    /\ UNCHANGED <<meals, files, nextId, req, codec, form, corr, analyze, dialog>>

\* storage.createRestaurant: a plain insert; restaurants.name is not unique
createRestaurant(p) ==
    /\ rel.client[p].pc = "createRestaurant"
    /\ rel' = [rel EXCEPT !.restaurants = @ + 1,
                          !.client[p].restaurantId = rel.restaurants + 1,
                          !.client[p].pc = AfterRestaurant(rel.client[p])]
    /\ UNCHANGED <<meals, files, nextId, req, codec, form, corr, analyze, dialog>>

\* createMeal: the insert of the meal row
createMealInsert(p) ==
    /\ rel.client[p].pc = "insertMeal"
    /\ rel' = [rel EXCEPT
         !.mealRows[rel.nextMeal] =
            [exists |-> TRUE, restaurantId |-> rel.client[p].restaurantId,
             photoUrl |-> FALSE],
         !.nextMeal = @ + 1,
         !.client[p].id = rel.nextMeal,
         !.client[p].pc = AfterLinksCleared(rel.client[p])]
    /\ UNCHANGED <<meals, files, nextId, req, codec, form, corr, analyze, dialog>>

\* updateMeal: the UPDATE of the meal row; it changes nothing without a row
updateMealUpdate(p) ==
    /\ rel.client[p].pc = "updateRow"
    /\ LET c == rel.client[p] IN
       rel' = [rel EXCEPT
         !.mealRows[c.id].restaurantId =
            IF rel.mealRows[c.id].exists /\ c.restaurantId # 0
            THEN c.restaurantId ELSE @,
         !.client[p].pc = IF c.peopleNames = NoNames THEN "reread"
                          ELSE "deleteLinks"]
    /\ UNCHANGED <<meals, files, nextId, req, codec, form, corr, analyze, dialog>>

\* db.delete(mealPeople).where(mealId = id), of updateMeal and of deleteMeal
deleteMealPeople(p) ==
    /\ rel.client[p].pc = "deleteLinks"
    /\ LET c == rel.client[p] IN
       rel' = [rel EXCEPT
         !.links[c.id] = 0,
         !.client[p].pc = IF c.kind = "delete" THEN "deleteRow"
                          ELSE AfterLinksCleared(c)]
    /\ UNCHANGED <<meals, files, nextId, req, codec, form, corr, analyze, dialog>>

\* storage.getPersonByName in the loop over peopleNames
getPersonByName(p) ==
    /\ rel.client[p].pc = "getPerson"
    /\ rel' = [rel EXCEPT !.client[p].pc =
         IF rel.client[p].peopleNames[1] \in rel.people THEN "link"
         ELSE "createPerson"]
    /\ UNCHANGED <<meals, files, nextId, req, codec, form, corr, analyze, dialog>>

\* storage.createPerson: people.name is unique, the insert of a name that is
\* there throws and the catch of the route answers
createPerson(p) ==
    /\ rel.client[p].pc = "createPerson"
    /\ LET c == rel.client[p] IN
       rel' = IF c.peopleNames[1] \in rel.people
              THEN [rel EXCEPT !.client[p] = RelRespond(c, RelErrorStatus(c))]
              ELSE [rel EXCEPT !.people = @ \cup {c.peopleNames[1]},
                               !.client[p].pc = "link"]
    /\ UNCHANGED <<meals, files, nextId, req, codec, form, corr, analyze, dialog>>

\* db.insert(mealPeople).values({mealId, personId})
insertMealPeople(p) ==
    /\ rel.client[p].pc = "link"
    /\ LET c == rel.client[p] IN
       rel' = IF ViolatesForeignKey("insertMealPeople", c.id)
              THEN [rel EXCEPT !.client[p] = RelRespond(c, RelErrorStatus(c))]
              ELSE [rel EXCEPT !.links[c.id] = @ + 1,
                               !.client[p].pc = "reread"]
    /\ UNCHANGED <<meals, files, nextId, req, codec, form, corr, analyze, dialog>>

\* the getMeal that ends createMeal and updateMeal, and the response
RelGetMealAgain(p) ==
    /\ rel.client[p].pc = "reread"
    /\ LET c == rel.client[p] IN
       rel' = [rel EXCEPT !.client[p] =
         IF ~rel.mealRows[c.id].exists THEN RelRespond(c, RelErrorStatus(c))
         ELSE RelRespond(c, IF c.kind = "post" THEN 201 ELSE 200)]
    /\ UNCHANGED <<meals, files, nextId, req, codec, form, corr, analyze, dialog>>

\* deleteMeal: the delete of the meal row, then the route's test of
\* meal?.photoUrl
deleteMealRow(p) ==
    /\ rel.client[p].pc = "deleteRow"
    /\ LET c == rel.client[p] IN
       rel' = IF ViolatesForeignKey("deleteMeal", c.id)
              THEN [rel EXCEPT !.client[p] = RelRespond(c, RelErrorStatus(c))]
              ELSE [rel EXCEPT
                      !.mealRows[c.id] = RelNoRow,
                      !.client[p] = IF c.photoUrl
                                    THEN [c EXCEPT !.pc = "safeDelete"]
                                    ELSE RelRespond(c, 204)]
    /\ UNCHANGED <<meals, files, nextId, req, codec, form, corr, analyze, dialog>>

\* safeDeleteFile(meal.photoUrl) of the delete route: the file is unlinked
\* or the failure is swallowed
RelSafeDeleteFile(p) ==
    /\ rel.client[p].pc = "safeDelete"
    /\ \E unlinkThrows \in BOOLEAN :
         LET c == rel.client[p] IN
         rel' = [rel EXCEPT
           !.photoFiles = IF unlinkThrows THEN @ ELSE @ \ {c.id},
           !.client[p] = RelRespond(c, 204)]
    /\ UNCHANGED <<meals, files, nextId, req, codec, form, corr, analyze, dialog>>

\* the client has its response; the slot takes the next request
RelRetire(p) ==
    /\ rel.client[p].pc = "done"
    /\ rel' = [rel EXCEPT !.client[p] = ClientIdle]
    /\ UNCHANGED <<meals, files, nextId, req, codec, form, corr, analyze, dialog>>

RelInit ==
    /\ meals = [m \in MealIds |-> NoRow]
    /\ files = {}
    /\ nextId = 1
    /\ req = [r \in Reqs |-> IdleReq]
    /\ codec = CodecIdle
    /\ form = FormIdle
    /\ corr = CorrIdle
    /\ rel = RelIdle
    /\ analyze = AnalyzeIdle
    /\ dialog = DialogIdle

RelNext ==
    \/ \E p \in Clients : RelPostMeal(p)
    \/ \E p \in Clients : RelPatchMeal(p)
    \/ \E p \in Clients : RelDeleteMeal(p)
    \/ \E p \in Clients : RelGetImage(p)
    \/ \E p \in Clients : getRestaurantByName(p)
    \/ \E p \in Clients : createRestaurant(p)
    \/ \E p \in Clients : createMealInsert(p)
    \/ \E p \in Clients : updateMealUpdate(p)
    \/ \E p \in Clients : deleteMealPeople(p)
    \/ \E p \in Clients : getPersonByName(p)
    \/ \E p \in Clients : createPerson(p)
    \/ \E p \in Clients : insertMealPeople(p)
    \/ \E p \in Clients : RelGetMealAgain(p)
    \/ \E p \in Clients : deleteMealRow(p)
    \/ \E p \in Clients : RelSafeDeleteFile(p)
    \/ \E p \in Clients : RelRetire(p)

SpecRelations == RelInit /\ [][RelNext]_vars

(***************************************************************************)
(* POST /api/analyze-photo.  multer writes an accepted file under uploads/ *)
(* before the handler runs; the handler reads it and awaits the AI call.   *)
(***************************************************************************)
AnalyzeRespond(c, status) == [c EXCEPT !.pc = "done", !.status = status]

\* upload.single("photo"): no photo part, a part that the filter or the size
\* limit refuses (nothing stays on disk, the request ends with the error),
\* or an accepted file stored under a fresh name
AnalyzeUpload(p) ==
    /\ analyze.client[p].pc = "idle"
    /\ analyze.arrived < MaxAnalyze
    /\ \E part \in {"none", "refused", "accepted"} :
         LET n == analyze.arrived + 1
             c == analyze.client[p] IN
         analyze' = [analyze EXCEPT
           !.arrived = n,
           !.accepted = IF part = "accepted" THEN @ + 1 ELSE @,
           !.uploads = IF part = "accepted" THEN @ \cup {n} ELSE @,
           !.client[p] =
              IF part = "refused" THEN AnalyzeRespond(c, UploadErrorStatus)
              ELSE [c EXCEPT !.pc = "handler",
                             !.file = IF part = "accepted" THEN n ELSE 0]]
    /\ UNCHANGED <<meals, files, nextId, req, codec, form, corr, rel, dialog>>

\* AnalyzePhotoHandler with the unlink of the temp file that the meal routes
\* do after reading it
AnalyzePhotoHandler_Unlinks(p) ==
    /\ analyze.client[p].pc = "handler"
    /\ \E readThrows \in BOOLEAN :
         LET c == analyze.client[p] IN
         analyze' = [analyze EXCEPT
           !.uploads = IF c.file # 0 /\ ~readThrows THEN @ \ {c.file} ELSE @,
           !.client[p] =
              IF c.file = 0 THEN AnalyzeRespond(c, 400)
              ELSE IF readThrows THEN AnalyzeRespond(c, 500)
              ELSE [c EXCEPT !.pc = "analyzeMealPhoto"]]
    /\ UNCHANGED <<meals, files, nextId, req, codec, form, corr, rel, dialog>>

\* the handler up to its await: 400 without a file, 500 when readFileSync
\* throws, else the AI call is started
AnalyzePhotoHandler(p) ==
    /\ analyze.client[p].pc = "handler"
    /\ \E readThrows \in BOOLEAN :
         LET c == analyze.client[p] IN
         analyze' = [analyze EXCEPT
           !.client[p] =
              IF c.file = 0 THEN AnalyzeRespond(c, 400)
              ELSE IF readThrows THEN AnalyzeRespond(c, 500)
              ELSE [c EXCEPT !.pc = "analyzeMealPhoto"]]
    /\ UNCHANGED <<meals, files, nextId, req, codec, form, corr, rel, dialog>>

\* the AI call returns and the analysis is sent, or it throws and the catch
\* answers 500
AnalyzePhotoAnswer(p) ==
    /\ analyze.client[p].pc = "analyzeMealPhoto"
    /\ \E aiThrows \in BOOLEAN :
         analyze' = [analyze EXCEPT !.client[p] =
           AnalyzeRespond(@, IF aiThrows THEN 500 ELSE 200)]
    /\ UNCHANGED <<meals, files, nextId, req, codec, form, corr, rel, dialog>>

\* the client has its response; the slot takes the next request
AnalyzeRetire(p) ==
    /\ analyze.client[p].pc = "done"
    /\ analyze' = [analyze EXCEPT !.client[p] =
         [pc |-> "idle", file |-> 0, status |-> 0]]
    /\ UNCHANGED <<meals, files, nextId, req, codec, form, corr, rel, dialog>>

AnalyzeNext ==
    \/ \E p \in Clients : AnalyzeUpload(p)
    \/ \E p \in Clients : AnalyzePhotoHandler(p)
    \/ \E p \in Clients : AnalyzePhotoAnswer(p)
    \/ \E p \in Clients : AnalyzeRetire(p)

SpecAnalyze == RelInit /\ [][AnalyzeNext]_vars

(***************************************************************************)
(* The meal edit dialog of the client: the state form.photo,               *)
(* newImagePreview and hasImageToDelete, the handlers of the image section *)
(* (each enabled when its button is rendered), and the submission.  One    *)
(* submission at a time is followed.                                       *)
(***************************************************************************)
DialogFiles == 1..MaxFiles

\* the FormData that updateMutation.mutationFn builds from the submitted
\* data and the state
MutationForm(data, hasImageToDelete) ==
    [sent |-> TRUE, photo |-> data,
     deleteImage |-> hasImageToDelete /\ data = 0]

\* <Dialog open={open} onOpenChange={setOpen}>
DialogOpenChange ==
    /\ dialog' = [dialog EXCEPT !.open = ~@]
    /\ UNCHANGED <<meals, files, nextId, req, codec, form, corr, rel, analyze>>

\* handleImageUpload without setHasImageToDelete(false)
handleImageUpload_KeepsDeleteFlag ==
    /\ dialog.open /\ dialog.newImagePreview = 0
    /\ \E file \in DialogFiles :
         dialog' = [dialog EXCEPT !.photo = file, !.newImagePreview = file]
    /\ UNCHANGED <<meals, files, nextId, req, codec, form, corr, rel, analyze>>

\* FileUpload is rendered while there is no preview
handleImageUpload ==
    /\ dialog.open /\ dialog.newImagePreview = 0
    /\ \E file \in DialogFiles :
         dialog' = [dialog EXCEPT !.photo = file, !.newImagePreview = file,
                                  !.hasImageToDelete = FALSE]
    /\ UNCHANGED <<meals, files, nextId, req, codec, form, corr, rel, analyze>>

\* the button on the current image
handleRemoveCurrentImage ==
    /\ dialog.open
    /\ dialog.imageUrl /\ ~dialog.hasImageToDelete /\ dialog.newImagePreview = 0
    /\ dialog' = [dialog EXCEPT !.hasImageToDelete = TRUE,
                                !.newImagePreview = 0, !.photo = 0]
    /\ UNCHANGED <<meals, files, nextId, req, codec, form, corr, rel, analyze>>

\* the button on the preview of the new image
handleRemoveNewImage ==
    /\ dialog.open /\ dialog.newImagePreview # 0
    /\ dialog' = [dialog EXCEPT !.newImagePreview = 0, !.photo = 0]
    /\ UNCHANGED <<meals, files, nextId, req, codec, form, corr, rel, analyze>>

\* "Anuluj usuwanie": onClick={() => setHasImageToDelete(false)}
DialogCancelDelete ==
    /\ dialog.open /\ dialog.hasImageToDelete /\ dialog.newImagePreview = 0
    /\ dialog' = [dialog EXCEPT !.hasImageToDelete = FALSE]
    /\ UNCHANGED <<meals, files, nextId, req, codec, form, corr, rel, analyze>>

\* onSubmit: the data are the form values at the submission; with a
\* description the correction is awaited first, else mutate is called
DialogOnSubmit ==
    /\ dialog.open /\ dialog.pc = "idle"
    /\ \E described \in BOOLEAN :
         dialog' = IF described
                   THEN [dialog EXCEPT !.pc = "correcting", !.data = dialog.photo,
                                       !.description = "given"]
                   ELSE [dialog EXCEPT
                           !.pc = "pending", !.data = dialog.photo,
                           !.description = "none",
                           !.formData = MutationForm(dialog.photo,
                                                     dialog.hasImageToDelete)]
    /\ UNCHANGED <<meals, files, nextId, req, codec, form, corr, rel, analyze>>

\* correctText has returned: updateMutation.mutate(data), with the state of
\* the current render
DialogMutate ==
    /\ dialog.pc = "correcting"
    /\ dialog' = [dialog EXCEPT
         !.pc = "pending", !.description = "corrected",
         !.formData = MutationForm(dialog.data, dialog.hasImageToDelete)]
    /\ UNCHANGED <<meals, files, nextId, req, codec, form, corr, rel, analyze>>

\* onSuccess clears the preview and the flag, closes the dialog and the meal
\* is fetched again; onError leaves the state
DialogResponse ==
    /\ dialog.pc = "pending"
    /\ \E ok \in BOOLEAN :
         dialog' = IF ok
                   THEN [dialog EXCEPT
                           !.pc = "idle", !.newImagePreview = 0,
                           !.hasImageToDelete = FALSE, !.open = FALSE,
                           !.imageUrl = IF dialog.formData.photo # 0 THEN TRUE
                                        ELSE IF dialog.formData.deleteImage
                                        THEN FALSE ELSE @]
                   ELSE [dialog EXCEPT !.pc = "idle"]
    /\ UNCHANGED <<meals, files, nextId, req, codec, form, corr, rel, analyze>>

DialogInit ==
    /\ meals = [m \in MealIds |-> NoRow]
    /\ files = {}
    /\ nextId = 1
    /\ req = [r \in Reqs |-> IdleReq]
    /\ codec = CodecIdle
    /\ form = FormIdle
    /\ corr = CorrIdle
    /\ rel = RelIdle
    /\ analyze = AnalyzeIdle
    /\ \E imageUrl \in BOOLEAN :
         dialog = [DialogIdle EXCEPT !.imageUrl = imageUrl]

DialogNext ==
    \/ DialogOpenChange
    \/ handleImageUpload
    \/ handleRemoveCurrentImage
    \/ handleRemoveNewImage
    \/ DialogCancelDelete
    \/ DialogOnSubmit
    \/ DialogMutate
    \/ DialogResponse

SpecDialog == DialogInit /\ [][DialogNext]_vars

(***************************************************************************)
(* Properties                                                              *)
(***************************************************************************)
Done(r, kind) == req[r].pc = "done" /\ req[r].kind = kind

\* the request got past its first database read
LookupCompleted(r) == Len(req[r].log) > 0 /\ req[r].log[1] = "lookup"

Logged(r, entry) == \E i \in 1..Len(req[r].log) : req[r].log[i] = entry

HasPayload(row) == row.exists /\ row.imageData.enc = "b64"

IsFallbackPayload(row) ==
    /\ HasPayload(row)
    /\ row.imageData.fmt \in {"img", "nodims"}
    /\ row.imageWidth # Null /\ row.imageHeight # Null

\* C3 (as claimed): when the encoder throws on create, the row holds the
\* base64 of the uploaded bytes, and a later GET /api/images/:id of such a row
\* answers 200 through the fallback decode.
C3_FallbackActivation ==
    /\ \A r \in Reqs :
         Done(r, "post") /\ Logged(r, "fallback:ok") /\ req[r].status = 201 =>
             meals[req[r].id].imageData = Base64Encode(req[r].file)
    /\ \A r \in Reqs :
         Done(r, "getImage") /\ LookupCompleted(r)
           /\ IsFallbackPayload(req[r].cur) =>
             /\ req[r].status = 200
             /\ req[r].log = <<"lookup", "compact:throw", "fallback:ok">>

\* C4 (as claimed): a PATCH with a new photo on which the encoder throws
\* still succeeds and stores the base64 of the uploaded bytes.
C4_PatchFallback ==
    \A r \in Reqs :
        Done(r, "patch") /\ Logged(r, "qoi:throw") /\ req[r].file.fmt = "img" =>
            /\ req[r].status = 200
            /\ meals[req[r].id].imageData = Base64Encode(req[r].file)

\* the fallback path of POST /api/meals threw
FallbackThrew(r) == Logged(r, "require:throw") \/ Logged(r, "metadata:throw")

\* C5 (as claimed): a POST /api/meals with an accepted file whose fallback
\* path does not throw, and whose insert goes through, leaves a meal with a
\* payload.
C5_WriteKeepsImage ==
    \A r \in Reqs :
        Done(r, "post") /\ req[r].file # NoBytes /\ ~FallbackThrew(r)
          /\ Logged(r, "create:ok") =>
            /\ req[r].status = 201
            /\ HasPayload(meals[req[r].id])

\* C6 (as claimed): when the fallback path throws, here on reading the
\* metadata of the original bytes, the request is answered with an error and
\* no meal is created.
C6_FallbackFailureIsFatal ==
    \A r \in Reqs :
        Done(r, "post") /\ Logged(r, "metadata:throw") =>
            req[r].status = 400 /\ ~Logged(r, "create:ok")

\* an unlink of the temp file threw during the request
UnlinkThrew(r) == Logged(r, "unlink:throw") \/ Logged(r, "unlinkAgain:throw")

\* C7 (as claimed): when a create or update request that uploaded a file has
\* responded, its temp file is gone (no unlink having failed).
C7_TempFileRemoved ==
    \A r \in Reqs :
        req[r].pc = "done" /\ req[r].kind \in {"post", "patch"}
          /\ req[r].file # NoBytes /\ ~UnlinkThrew(r) =>
            TempFile(r) \notin files

\* C8 (as claimed): when the unlink after the processing throws and nothing
\* else fails, the request succeeds and the processed image is stored.
C8_UnlinkFailureSwallowed ==
    \A r \in Reqs :
        req[r].pc = "done" /\ req[r].kind \in {"post", "patch"}
          /\ Logged(r, "unlink:throw")
          /\ ~Logged(r, "create:throw") /\ ~Logged(r, "update:throw")
          /\ ~Logged(r, "update:missing") =>
            /\ req[r].status \in {200, 201}
            /\ HasPayload(meals[req[r].id])

\* C9: once storage.deleteMeal has returned, DELETE /api/meals/:id answers 204
\* with the row gone whatever safeDeleteFile met: a file that is absent, a
\* file another request removed after the existence test, an unlink that
\* throws.  safeDeleteFile always returns to its caller.
C9_IdempotentDelete ==
    \A r \in Reqs : req[r].kind = "delete" /\ Logged(r, "deleteMeal") =>
        /\ ~meals[req[r].id].exists
        /\ req[r].pc \in {"safeDelete", "unlink", "done"}
        /\ req[r].pc = "safeDelete" /\ MayStep(r) =>
             ENABLED safeDeleteFileExists(r)
        /\ req[r].pc = "unlink" /\ MayStep(r) => ENABLED safeDeleteFileUnlink(r)
        /\ req[r].pc = "done" => req[r].status = 204

\* C9 witness: the meal had a photo whose file was already absent
C9_Witness ==
    \E r \in Reqs : /\ Done(r, "delete") /\ req[r].status = 204
                    /\ req[r].cur.photoUrl # NoFile
                    /\ ActualPath(req[r].cur.photoUrl) \notin files
                    /\ Logged(r, "safeDelete:false")

\* |a - b|
Dist(a, b) == IF a >= b THEN a - b ELSE b - a

\* C10: when processImageForStorage returns for a photo wider or higher than
\* 1920, both returned sides are at most 1920, the longer one is 1920, and
\* each is an integer nearest to the intrinsic side times
\* min(1920 / width, 1920 / height), i.e. 1920 / max(width, height).
C10_DownscaleInvariant ==
    LET w == codec.imageBuffer.w
        h == codec.imageBuffer.h
        out == codec.result
    IN  codec.pc = "returned" /\ out.ok /\ (w > 1920 \/ h > 1920) =>
          /\ out.width <= 1920 /\ out.height <= 1920
          /\ Max(out.width, out.height) = 1920
          /\ 2 * Dist(out.width * Max(w, h), w * 1920) <= Max(w, h)
          /\ 2 * Dist(out.height * Max(w, h), h * 1920) <= Max(w, h)

\* C10 witness: a 3000 x 2000 photo came back as 1920 x 1280
C10_Witness ==
    /\ codec.pc = "returned" /\ codec.result.ok
    /\ codec.imageBuffer.w > 1920 /\ codec.imageBuffer.h > 1920
    /\ codec.result.width = 1920 /\ codec.result.height < 1920

\* C11 (as claimed): a POST /api/meals whose accepted upload is not a
\* decodable image is answered with an error before anything is stored: no
\* meal row is written for it and no row holds its bytes as a payload.
C11_UndecodableUploadRejected ==
    /\ \A r \in Reqs :
         Done(r, "post") /\ req[r].file.fmt = "garbage" =>
             req[r].status = 400 /\ ~Logged(r, "create:ok")
    /\ \A m \in MealIds : meals[m].imageData.fmt # "garbage"

C13_DeleteImageFlag ==
    /\ \A r \in Reqs :
         Done(r, "patch") /\ Logged(r, "update:ok") /\ req[r].deleteImage =>
           LET row == meals[req[r].id] IN
           IF req[r].file = NoBytes
           THEN /\ row.imageData = NullText
                /\ row.imageWidth = Null /\ row.imageHeight = Null
                /\ row.photoUrl = NoFile
           ELSE /\ HasPayload(row)
                /\ row.imageData = req[r].imageData
                /\ row.imageData \in
                     { o.qoiData : o \in processImageForStorage(req[r].file, FALSE) }
                /\ row.imageWidth = req[r].imageWidth /\ row.imageWidth > 0
                /\ row.imageHeight = req[r].imageHeight /\ row.imageHeight > 0
    /\ \A g \in Reqs :
         Done(g, "getImage") /\ LookupCompleted(g) /\ req[g].cur.exists
           /\ req[g].cur.imageData = NullText => req[g].status = 404

\* C13 witness: the flag without a file cleared a meal that had a photoUrl
C13_Witness ==
    \E r \in Reqs : /\ Done(r, "patch") /\ Logged(r, "update:ok")
                    /\ req[r].deleteImage /\ req[r].file = NoBytes
                    /\ req[r].cur.photoUrl # NoFile
                    /\ meals[req[r].id].photoUrl = NoFile

\* C14 (as claimed): every stored payload is either the output of the compact
\* encoder or the base64 of the uploaded bytes, and a GET /api/images/:id
\* serves the first kind through the compact decode and the second kind
\* through the fallback decode.
C14_EncodingKind ==
    /\ \A m \in MealIds : HasPayload(meals[m]) =>
         \/ meals[m].imageData.fmt = "qoi"
         \/ Base64Decode(meals[m].imageData) \in Uploads
    /\ \A g \in Reqs :
         Done(g, "getImage") /\ LookupCompleted(g) /\ HasPayload(req[g].cur) =>
           /\ req[g].cur.imageData.fmt = "qoi" =>
                req[g].status = 200 /\ req[g].log = <<"lookup", "compact:ok">>
           /\ req[g].cur.imageData.fmt \in {"img", "nodims"} =>
                /\ req[g].status = 200
                /\ req[g].log = <<"lookup", "compact:throw", "fallback:ok">>

\* the number of entries of the request's log that are in the set
Count(r, entries) ==
    Cardinality({ i \in 1..Len(req[r].log) : req[r].log[i] \in entries })

\* C15: a create or update request makes at most one compact-encode attempt
\* and at most one fallback attempt, the fallback only right after the
\* encode attempt threw; and no step of a GET /api/images/:id changes the
\* imageData, imageWidth or imageHeight of any meal (nor any other column).
C15_ChoiceMadeOnceAtWrite ==
    /\ [](\A r \in Reqs : req[r].kind \in {"post", "patch"} =>
            /\ Count(r, {"qoi:ok", "qoi:throw"}) <= 1
            /\ Count(r, {"fallback:ok", "metadata:throw", "require:throw"}) <= 1
            /\ \A i \in 1..Len(req[r].log) :
                 req[r].log[i] \in {"fallback:ok", "metadata:throw", "require:throw"}
                   => i > 1 /\ req[r].log[i - 1] = "qoi:throw")
    /\ [][\A g \in Reqs : req'[g].kind = "getImage" /\ req'[g] # req[g] =>
            meals' = meals]_vars

\* C15 witness: a read that failed in both decodes left the payload it read
C15_Witness ==
    \E g \in Reqs : /\ Done(g, "getImage") /\ req[g].status = 500
                    /\ HasPayload(req[g].cur)
                    /\ meals[req[g].id] = req[g].cur

\* the image columns of a row
ImageTriple(row) == <<row.imageData, row.imageWidth, row.imageHeight>>

\* the image columns that one request writes: the insert of POST /api/meals
\* with or without a file, the update of PATCH /api/meals/:id with a file or
\* with the delete-image flag
WrittenTriples ==
    { <<NullText, Null, Null>> }
      \cup { <<ColumnText(o.imageData), ColumnInt(o.imageWidth),
               ColumnInt(o.imageHeight)>>
             : o \in UNION { PostMealImageOutcomes(file) : file \in Uploads } }
      \cup { <<o.qoiData, o.width, o.height>>
             : o \in { q \in UNION { processImageForStorage(file, FALSE)
                                     : file \in Uploads } : q.ok } }

\* C16: under every interleaving of PATCH, GET image and the other requests
\* on the same meal, the (imageData, imageWidth, imageHeight) of every row,
\* and of every row that a GET /api/images/:id has read, is a triple that a
\* single request wrote: never the payload of one update with the dimensions
\* of another.
C16_RowUpdateAtomic ==
    /\ \A m \in MealIds : meals[m].exists =>
         ImageTriple(meals[m]) \in WrittenTriples
    /\ \A g \in Reqs :
         req[g].kind = "getImage" /\ LookupCompleted(g) /\ req[g].cur.exists =>
           ImageTriple(req[g].cur) \in WrittenTriples

\* C16 witness: a read of a meal with a payload while a PATCH of the same
\* meal is waiting to write another payload
C16_Witness ==
    \E g \in Reqs, p \in Reqs :
        /\ req[g].kind = "getImage" /\ LookupCompleted(g) /\ HasPayload(req[g].cur)
        /\ req[p].kind = "patch" /\ req[p].pc = "update"
        /\ req[p].id = req[g].id
        /\ req[p].imageData.enc = "b64"
        /\ req[p].imageData # req[g].cur.imageData

C18_ImageFieldsTogether ==
    \A m \in MealIds : meals[m].exists =>
        /\ HasPayload(meals[m]) <=>
             meals[m].imageWidth > 0 /\ meals[m].imageHeight > 0
        /\ ~HasPayload(meals[m]) =>
             meals[m].imageWidth = Null /\ meals[m].imageHeight = Null

\* C19 (as claimed): every rating stored for a meal is an integer from -3 to
\* 3, whatever the request bodies of the accepted create and update requests
\* carried.
C19_RatingsInRange ==
    form.exists => \A f \in RatingFields : form.ratings[f] \in -3..3

\* C20: correctDescription never throws; on an empty or blank text, on a
\* failing AI call and on a reply that cannot be parsed it returns the input
\* with correctionsMade false and no corrections; the client's correctText
\* returns the original text when the request to /api/correct-text fails, and
\* always returns (each of its steps can be taken), so the submission goes on.
C20_CorrectionDegradesToOriginal ==
    /\ corr.pc \in {"described", "responded", "returned"} =>
         ~corr.correction.threw
    /\ ( /\ corr.pc = "described" \/ (corr.pc \in {"responded", "returned"}
                                      /\ corr.status = 200)
         /\ corr.text = "" \/ IsBlank(corr.text)
              \/ corr.reply.kind \in ThrowingReplies ) =>
           /\ corr.correction.correctedText = corr.text
           /\ corr.correction.correctionsMade = FALSE
           /\ corr.correction.corrections = 0
    /\ corr.via = "client" =>
         /\ corr.pc = "idle" => ENABLED ClientCorrectText
         /\ corr.pc = "route" => ENABLED RouteCorrectText
         /\ corr.pc = "responded" => ENABLED ClientReceive /\ corr.status = 200
         /\ corr.pc = "returned" /\ (corr.failed \/ IsBlank(corr.text)) =>
              corr.returned = corr.text

\* C20 witness: the AI call failed, the route answered with the original
\* text and the client returned it
C20_Witness ==
    /\ corr.via = "client" /\ corr.pc = "returned" /\ ~corr.failed
    /\ corr.reply.kind = "apiError"
    /\ corr.text = "zupa pomidorwa" /\ corr.returned = corr.text

\* the request has all three image locals assigned
WritesAllImageFields(rq) ==
    rq.imageData.enc # "undef" /\ rq.imageWidth # Undef /\ rq.imageHeight # Undef

\* C21: the update of a PATCH /api/meals/:id that carried no file and no
\* deleteImage = "true" leaves imageData, imageWidth and imageHeight of every
\* meal as they were; and whenever a step changes an image field of a row
\* that stays, it is the update of a request that writes all three fields.
C21_ImageFieldsFrame ==
    /\ [][\A r \in Reqs :
            req[r].pc = "update" /\ req'[r].pc = "done"
              /\ req[r].file = NoBytes /\ ~req[r].deleteImage =>
                \A m \in MealIds : ImageTriple(meals'[m]) = ImageTriple(meals[m])]_vars
    /\ [][\A m \in MealIds :
            meals[m].exists /\ meals'[m].exists
              /\ ImageTriple(meals'[m]) # ImageTriple(meals[m]) =>
                \E r \in Reqs : /\ req[r].pc = "update" /\ req'[r].pc = "done"
                                /\ req[r].id = m
                                /\ WritesAllImageFields(req[r])]_vars

\* C21 witness: an update without file and without the flag went through on
\* a meal that has a payload
C21_Witness ==
    \E r \in Reqs : /\ Done(r, "patch") /\ Logged(r, "update:ok")
                    /\ req[r].file = NoBytes /\ ~req[r].deleteImage
                    /\ HasPayload(meals[req[r].id])

\* sharp's metadata() gives a width and a height for the buffer
DimensionsKnown(imageBuffer) ==
    imageBuffer.fmt = "img" /\ imageBuffer.w >= 1 /\ imageBuffer.h >= 1

\* C22: for every input whose width and height are both between 1 and 1920
\* the width and height that processImageForStorage returns are the
\* intrinsic ones, and for an input whose width or height cannot be
\* determined the call fails and returns no payload.
C22_ResizeOnlyWhenNeeded ==
    codec.pc = "returned" =>
        /\ ( /\ DimensionsKnown(codec.imageBuffer) /\ codec.result.ok
             /\ codec.imageBuffer.w <= maxDimension
             /\ codec.imageBuffer.h <= maxDimension ) =>
               /\ codec.result.width = codec.imageBuffer.w
               /\ codec.result.height = codec.imageBuffer.h
        /\ ~DimensionsKnown(codec.imageBuffer) => codec.result = Failed

\* C22 witness: a 1920 x 1919 photo came back with its own dimensions
C22_Witness ==
    /\ codec.pc = "returned" /\ codec.result.ok
    /\ codec.imageBuffer = Upload("img", maxDimension, maxDimension - 1)
    /\ codec.result.width = maxDimension
    /\ codec.result.height = maxDimension - 1

\* C26 (as claimed): for every input with width >= 1 and height >= 1 the
\* width and the height that processImageForStorage computes, passes to the
\* resize and to the encoder and returns, are at least 1.
C26_DimensionsAtLeastOne ==
    codec.pc = "returned" /\ DimensionsKnown(codec.imageBuffer) =>
        /\ \A d \in ScaledDimensions(codec.imageBuffer.w, codec.imageBuffer.h) :
             d[1] >= 1 /\ d[2] >= 1
        /\ codec.result.ok => codec.result.width >= 1 /\ codec.result.height >= 1

\* C24 (as claimed): when analyzeMealPhoto throws during a POST /api/meals
\* with a file, the AI failure does not end the request, and the meal that
\* the insert creates carries the payload and the dimensions of the uploaded
\* image.
C24_ImageSurvivesAiFailure ==
    \A r \in Reqs :
        req[r].kind = "post" /\ req[r].file \in Uploads /\ Logged(r, "ai:throw") =>
            /\ req[r].pc = "done" =>
                 \/ Logged(r, "create:ok") \/ Logged(r, "create:throw")
                 \/ Logged(r, "create:people:throw")
            /\ Logged(r, "create:ok") =>
                 /\ req[r].imageData.enc = "b64"
                 /\ req[r].imageWidth > 0 /\ req[r].imageHeight > 0

\* C25 (as claimed): once a request that removed a file through
\* safeDeleteFile has been answered with success, no meal row has a photoUrl
\* that points to the removed file.
C25_NoDanglingPhotoUrl ==
    \A r \in Reqs :
        req[r].pc = "done" /\ req[r].status \in {200, 204}
          /\ Logged(r, "safeDelete:true") =>
             \A m \in MealIds :
                 meals[m].exists => meals[m].photoUrl # req[r].cur.photoUrl

RelQuiet == \A p \in Clients : rel.client[p].pc \in {"idle", "done"}

\* C27 (as claimed): when no request is in flight there is at most one
\* restaurant row with the name the requests gave, and every meal that has
\* a restaurant references that row.
C27_RestaurantGetOrCreateUnique ==
    RelQuiet =>
        /\ rel.restaurants <= 1
        /\ \A m \in RelMealIds :
             rel.mealRows[m].exists => rel.mealRows[m].restaurantId \in {0, 1}

\* C28 (as claimed): when POST /api/meals has responded with an error
\* status, no meal row and no meal_people row that the request wrote is in
\* the database.
C28_CreateAllOrNothing ==
    \A p \in Clients :
        LET c == rel.client[p] IN
        c.kind = "post" /\ c.pc = "done" /\ c.status >= 400 /\ c.id # 0 =>
            ~rel.mealRows[c.id].exists /\ rel.links[c.id] = 0

\* C29: no step of POST /api/analyze-photo removes a file from uploads/;
\* for every request that carried an accepted file one temp file is there,
\* while the request runs, after its answer (200 or 500) and after it is
\* gone.
C29_AnalyzePhotoKeepsTempFile ==
    /\ [](/\ Cardinality(analyze.uploads) = analyze.accepted
          /\ \A p \in Clients :
               analyze.client[p].file # 0 =>
                   analyze.client[p].file \in analyze.uploads)
    /\ [][analyze.uploads \subseteq analyze'.uploads]_vars

\* C29 witness: one request with a file was answered 200, another 500, both
\* temp files are there
C29_Witness ==
    \E p \in Clients, q \in Clients :
        /\ analyze.client[p].pc = "done" /\ analyze.client[p].status = 200
        /\ analyze.client[q].pc = "done" /\ analyze.client[q].status = 500
        /\ analyze.client[p].file # 0 /\ analyze.client[q].file # 0
        /\ {analyze.client[p].file, analyze.client[q].file}
             \subseteq analyze.uploads

\* C30: in the meal edit dialog hasImageToDelete is never true together
\* with a selected new photo or a preview; the form of a submitted PATCH has
\* deleteImage = "true" only without a photo, and a photo only without
\* deleteImage.
C30_DialogDeleteExcludesPhoto ==
    /\ dialog.hasImageToDelete =>
         dialog.photo = 0 /\ dialog.newImagePreview = 0
    /\ dialog.formData.sent =>
         /\ dialog.formData.deleteImage => dialog.formData.photo = 0
         /\ dialog.formData.photo # 0 => ~dialog.formData.deleteImage

\* C30 witness: the user marked the current image for deletion and
\* submitted: the form carries deleteImage and no photo
C30_Witness ==
    /\ dialog.pc = "pending" /\ dialog.hasImageToDelete
    /\ dialog.formData.sent /\ dialog.formData.deleteImage
    /\ dialog.formData.photo = 0

====
